---- MODULE Spec2Model ----
(***************************************************************************)
(* Model of django_adaptation.py: the read path                            *)
(*   PersonView.get -> UseCaseInteractor -> PersonRepo -> cache, database  *)
(* Every request owns the view, interactor and repository objects the      *)
(* factories build for it; the cache store and the database are shared.    *)
(* The calls a request makes on the two stores are the atomic steps, so    *)
(* requests interleave between them.                                       *)
(***************************************************************************)
EXTENDS Integers, Sequences, FiniteSets, TLC

VARIABLES db, cache, pc, mode, arg, reference, lastSet, setRet, person, outcome,
          response, nSet, repoCalls, cacheSeen, dbQueries, cacheSaves,
          serialized, writes

vars == <<db, cache, pc, mode, arg, reference, lastSet, setRet, person, outcome,
          response, nSet, repoCalls, cacheSeen, dbQueries, cacheSaves,
          serialized, writes>>

\* ---------------------------------------------------------------- bounds
NumCalls == 2
MaxSetParams == 2

Calls == 1..NumCalls
Refs == {"abc", "missing"}
Depts == {5, 7}

\* ------------------------------------------------------------ the values
None == [none |-> TRUE]
Unset == "unset"

Person(r, d) == [_reference |-> r, _department_id |-> d]
Person_reference(p) == p._reference
Person_department_id(p) == p._department_id

ORMPerson(r, d) == [reference |-> r, department_id |-> d]

Ok(v) == [kind |-> "ok", value |-> v]
Raised(e) == [kind |-> "raised", value |-> e]
Pending == [kind |-> "pending", value |-> None]

NoResponse == [kind |-> "none", body |-> None, status |-> 0]
Returned(b, s) == [kind |-> "returned", body |-> b, status |-> s]
Escaped(e) == [kind |-> "escaped", body |-> e, status |-> 0]

\* --------------------------------------------------------- pure functions
DecodeLosesDepartment(orm_person) ==
    Person(orm_person.reference, 5)

_decode_orm_person(orm_person) ==
    Person(orm_person.reference, orm_person.department_id)

SerializeDropsField(p) ==
    [reference |-> Person_reference(p)]

serialize(p) ==
    [reference |-> Person_reference(p), department_id |-> Person_department_id(p)]

NotFoundBody == [error |-> "Person does not exist!"]
NotFoundStatus == 404
OkStatus == 200

LeakedOrmError == "ORMPerson.DoesNotExist"

EntityDoesNotExist == "EntityDoesNotExist"

CatchesNothing(e) == FALSE

CatchesEverything(e) == TRUE

ViewCatches(e) == e = EntityDoesNotExist

MissAlways(p) == TRUE

CacheMiss(p) == p = None

StoredReferenceOnce(old, r) == IF old = Unset THEN r ELSE old

StoredReference(old, r) == r

SetParamsReturn(c) == c

\* the cache store and the database
CacheGetPerson(r) == IF r \in DOMAIN cache THEN cache[r] ELSE None

CacheSavePerson(p) ==
    [r \in DOMAIN cache \cup {Person_reference(p)} |->
        IF r = Person_reference(p) THEN p ELSE cache[r]]

SavedOnMissWrong(c, p) == Person(Person_reference(p), 5)

SavedOnMiss(c, p) == p

Databases ==
    UNION {[S -> Depts] : S \in SUBSET Refs}

\* what the cache may hold at the start: for a reference the database has
\* with department 5 a fresh entry, with department 7 a stale one, and for
\* a reference the database lacks an orphan
CacheDepts == {5}

Caches ==
    UNION {[S -> CacheDepts] : S \in SUBSET Refs}

\* ------------------------------------------------------------------ Init
InitCalls ==
    /\ pc = [c \in Calls |-> "idle"]
    /\ mode = [c \in Calls |-> "none"]
    /\ arg = [c \in Calls |-> Unset]
    /\ reference = [c \in Calls |-> Unset]
    /\ lastSet = [c \in Calls |-> Unset]
    /\ setRet = [c \in Calls |-> 0]
    /\ person = [c \in Calls |-> None]
    /\ outcome = [c \in Calls |-> Pending]
    /\ response = [c \in Calls |-> NoResponse]
    /\ nSet = [c \in Calls |-> 0]
    /\ repoCalls = [c \in Calls |-> <<>>]
    /\ cacheSeen = [c \in Calls |-> <<>>]
    /\ dbQueries = [c \in Calls |-> 0]
    /\ cacheSaves = [c \in Calls |-> 0]
    /\ serialized = [c \in Calls |-> 0]
    /\ writes = <<>>

Init ==
    /\ \E d \in Databases : db = [r \in DOMAIN d |-> ORMPerson(r, d[r])]
    /\ \E ch \in Caches : cache = [r \in DOMAIN ch |-> Person(r, ch[r])]
    /\ InitCalls

InitCoherent ==
    /\ \E d \in Databases : db = [r \in DOMAIN d |-> ORMPerson(r, d[r])]
    /\ \E S \in SUBSET DOMAIN db : cache = [r \in S |-> Person(r, db[r].department_id)]
    /\ InitCalls

\* --------------------------------------------------------------- actions
Stores == <<db, cache, writes>>
Ghost == <<repoCalls, cacheSeen, dbQueries, cacheSaves, serialized>>

\* PersonView.get, after the interactor's execute(): the except branch, the
\* else branch, or the exception leaving the view
ViewResult(out) ==
    IF out.kind = "raised"
    THEN IF ViewCatches(out.value)
         THEN Returned(NotFoundBody, NotFoundStatus)
         ELSE Escaped(out.value)
    ELSE Returned(serialize(out.value), OkStatus)

\* get_person ends with `out` (a return or a raise); execute() passes it on
\* and, for a request that came through the view, PersonView.get finishes
Complete(c, out) ==
    /\ outcome' = [outcome EXCEPT ![c] = out]
    /\ response' = [response EXCEPT ![c] =
                        IF mode[c] = "view" THEN ViewResult(out) ELSE @]
    /\ serialized' = [serialized EXCEPT ![c] =
                        IF mode[c] = "view" /\ out.kind = "ok" THEN @ + 1 ELSE @]
    /\ pc' = [pc EXCEPT ![c] = "done"]

\* PersonView.get(reference), up to the repository's first call on a store:
\* set_params(reference=reference).execute()
ViewGet(c, r) ==
    /\ pc[c] = "idle"
    /\ mode' = [mode EXCEPT ![c] = "view"]
    /\ arg' = [arg EXCEPT ![c] = r]
    /\ reference' = [reference EXCEPT ![c] = StoredReference(@, r)]
    /\ lastSet' = [lastSet EXCEPT ![c] = r]
    /\ setRet' = [setRet EXCEPT ![c] = SetParamsReturn(c)]
    /\ repoCalls' = [repoCalls EXCEPT ![c] = Append(@, StoredReference(reference[c], r))]
    /\ pc' = [pc EXCEPT ![c] = "cache_get"]
    /\ UNCHANGED <<person, outcome, response, nSet>>
    /\ UNCHANGED Stores
    /\ UNCHANGED <<cacheSeen, dbQueries, cacheSaves, serialized>>

\* UseCaseInteractor.set_params(reference), called by a caller that holds the
\* interactor itself (GetPersonInteractorFactory.get)
SetParams(c, r) ==
    /\ pc[c] \in {"idle", "configured"}
    /\ nSet[c] < MaxSetParams
    /\ mode' = [mode EXCEPT ![c] = "direct"]
    /\ reference' = [reference EXCEPT ![c] = StoredReference(@, r)]
    /\ lastSet' = [lastSet EXCEPT ![c] = r]
    /\ setRet' = [setRet EXCEPT ![c] = SetParamsReturn(c)]
    /\ nSet' = [nSet EXCEPT ![c] = @ + 1]
    /\ arg' = [arg EXCEPT ![c] = IF @ = Unset THEN r ELSE @]
    /\ pc' = [pc EXCEPT ![c] = "configured"]
    /\ UNCHANGED <<person, outcome, response>>
    /\ UNCHANGED Stores /\ UNCHANGED Ghost

\* UseCaseInteractor.execute(), called by that caller:
\* self.person_repo.get_person(reference=self.reference)
Execute(c) ==
    /\ pc[c] \in {"idle", "configured"}
    /\ mode' = [mode EXCEPT ![c] = "direct"]
    /\ IF reference[c] = Unset
       THEN /\ Complete(c, Raised("AttributeError"))
            /\ UNCHANGED repoCalls
       ELSE /\ repoCalls' = [repoCalls EXCEPT ![c] = Append(@, reference[c])]
            /\ pc' = [pc EXCEPT ![c] = "cache_get"]
            /\ UNCHANGED <<outcome, response, serialized>>
    /\ nSet' = [nSet EXCEPT ![c] = 0]
    /\ UNCHANGED <<arg, reference, lastSet, setRet, person>>
    /\ UNCHANGED Stores
    /\ UNCHANGED <<cacheSeen, dbQueries, cacheSaves>>

\* PersonRepo.get_person: person = self.cache_repo.get_person(reference);
\* on a hit, return person
CacheGet(c) ==
    /\ pc[c] = "cache_get"
    /\ LET r == repoCalls[c][Len(repoCalls[c])]
           p == CacheGetPerson(r)
       IN  /\ person' = [person EXCEPT ![c] = p]
           /\ cacheSeen' = [cacheSeen EXCEPT ![c] = Append(@, p)]
           /\ IF CacheMiss(p)
              THEN /\ pc' = [pc EXCEPT ![c] = "db_get"]
                   /\ UNCHANGED <<outcome, response, serialized>>
              ELSE Complete(c, Ok(p))
    /\ UNCHANGED <<mode, arg, reference, lastSet, setRet, nSet>>
    /\ UNCHANGED Stores
    /\ UNCHANGED <<repoCalls, dbQueries, cacheSaves>>

\* PersonRepo.get_person: person = self.db_repo.get_person(reference), which
\* is PersonDatabaseRepo.get_person
DbGet(c) ==
    /\ pc[c] = "db_get"
    /\ dbQueries' = [dbQueries EXCEPT ![c] = @ + 1]
    /\ LET r == repoCalls[c][Len(repoCalls[c])]
       IN  IF r \in DOMAIN db
           THEN /\ person' = [person EXCEPT ![c] = _decode_orm_person(db[r])]
                /\ pc' = [pc EXCEPT ![c] = "cache_save"]
                /\ UNCHANGED <<outcome, response, serialized>>
           ELSE /\ Complete(c, Raised(EntityDoesNotExist))
                /\ UNCHANGED person
    /\ UNCHANGED <<mode, arg, reference, lastSet, setRet, nSet>>
    /\ UNCHANGED Stores
    /\ UNCHANGED <<repoCalls, cacheSeen, cacheSaves>>

\* PersonRepo.get_person: self.cache_repo.save_person(person); return person
CacheSave(c) ==
    /\ pc[c] = "cache_save"
    /\ LET p == SavedOnMiss(c, person[c])
       IN  /\ cache' = CacheSavePerson(p)
           /\ writes' = Append(writes, [call |-> c, person |-> p])
    /\ cacheSaves' = [cacheSaves EXCEPT ![c] = @ + 1]
    /\ Complete(c, Ok(person[c]))
    /\ UNCHANGED <<db, mode, arg, reference, lastSet, setRet, person, nSet>>
    /\ UNCHANGED <<repoCalls, cacheSeen, dbQueries>>

\* a store that is unavailable: the call on it raises something that is not
\* EntityDoesNotExist, and get_person has no handler for it
StoreFails(c) ==
    /\ pc[c] \in {"cache_get", "db_get", "cache_save"}
    /\ dbQueries' = [dbQueries EXCEPT ![c] = IF pc[c] = "db_get" THEN @ + 1 ELSE @]
    /\ Complete(c, Raised("StoreUnavailable"))
    /\ UNCHANGED <<mode, arg, reference, lastSet, setRet, person, nSet>>
    /\ UNCHANGED Stores
    /\ UNCHANGED <<repoCalls, cacheSeen, cacheSaves>>

Next ==
    \/ \E c \in Calls, r \in Refs : ViewGet(c, r)
    \/ \E c \in Calls, r \in Refs : SetParams(c, r)
    \/ \E c \in Calls : Execute(c)
    \/ \E c \in Calls : CacheGet(c)
    \/ \E c \in Calls : DbGet(c)
    \/ \E c \in Calls : CacheSave(c)
    \/ \E c \in Calls : StoreFails(c)

Spec == Init /\ [][Next]_vars

SpecCoherent == InitCoherent /\ [][Next]_vars

\* ------------------------------------------------------------ properties
TypeOK ==
    /\ DOMAIN db \subseteq Refs
    /\ DOMAIN cache \subseteq Refs
    /\ \A c \in Calls : dbQueries[c] \in 0..1 /\ cacheSaves[c] \in 0..1

Done(c) == pc[c] = "done"
InView(c) == mode[c] = "view"
Requested(c) == repoCalls[c][1]
Called(c) == Len(repoCalls[c]) = 1
Hit(c) == Len(cacheSeen[c]) = 1 /\ cacheSeen[c][1] # None
Missed(c) == Len(cacheSeen[c]) = 1 /\ cacheSeen[c][1] = None
StoreFailed(c) == outcome[c] = Raised("StoreUnavailable")
DbPerson(r) == Person(r, db[r].department_id)
WritesOf(c) == {i \in 1..Len(writes) : writes[i].call = c}
WritesTo(r) == {i \in 1..Len(writes) : Person_reference(writes[i].person) = r}
LastWriteTo(r) == CHOOSE i \in WritesTo(r) : \A j \in WritesTo(r) : j <= i

\* C1: a get_person call whose cache lookup found a Person returns exactly
\* that Person, has made no call of the database's get_person and no call of
\* the cache's save_person, whatever the database holds for the reference.
C1_CacheHitSkipsDatabase ==
    \A c \in Calls :
        Hit(c) =>
            /\ Done(c)
            /\ outcome[c] = Ok(cacheSeen[c][1])
            /\ dbQueries[c] = 0
            /\ cacheSaves[c] = 0
            /\ WritesOf(c) = {}

\* a hit on an entry that differs from the database's row, and a hit on an
\* entry the database has no row for
C1_Witness ==
    /\ \E c \in Calls :
          /\ Hit(c) /\ Done(c)
          /\ Requested(c) \in DOMAIN db
          /\ outcome[c].value # DbPerson(Requested(c))
    /\ \E c \in Calls :
          /\ Hit(c) /\ Done(c)
          /\ Requested(c) \notin DOMAIN db

\* C2: a get_person call that missed the cache for a reference the database
\* has returns the database's Person, and from then on the cache holds that
\* Person under that reference; the save comes after the one database read
\* and before the return.
C2_MissPopulatesCache ==
    \A c \in Calls :
        /\ pc[c] = "cache_save" =>
              /\ dbQueries[c] = 1 /\ cacheSaves[c] = 0
              /\ outcome[c] = Pending
              /\ person[c] = DbPerson(Requested(c))
        /\ (Done(c) /\ Missed(c) /\ Requested(c) \in DOMAIN db /\ ~StoreFailed(c)) =>
              /\ outcome[c] = Ok(DbPerson(Requested(c)))
              /\ dbQueries[c] = 1 /\ cacheSaves[c] = 1
              /\ Requested(c) \in DOMAIN cache
              /\ cache[Requested(c)] = DbPerson(Requested(c))

C2_Witness ==
    \E c \in Calls :
        /\ Done(c) /\ Missed(c) /\ Requested(c) \in DOMAIN db
        /\ outcome[c] = Ok(DbPerson(Requested(c)))
        /\ db[Requested(c)].department_id = 7
        /\ cache[Requested(c)] = DbPerson(Requested(c))

\* C3: a get_person call for a reference absent from the cache and from the
\* database ends in EntityDoesNotExist, the exception the database raised,
\* and has written nothing to the cache: the reference is still absent.
C3_AbsentFromBothRaises ==
    \A c \in Calls :
        (Done(c) /\ Missed(c) /\ Requested(c) \notin DOMAIN db /\ ~StoreFailed(c)) =>
            /\ outcome[c] = Raised("EntityDoesNotExist")
            /\ cacheSaves[c] = 0
            /\ WritesOf(c) = {}
            /\ Requested(c) \notin DOMAIN cache

C3_Witness ==
    \E c \in Calls :
        /\ Done(c) /\ Missed(c) /\ Requested(c) \notin DOMAIN db
        /\ outcome[c] = Raised("EntityDoesNotExist")
        /\ dbQueries[c] = 1

\* C4: when the interactor's execution fails with EntityDoesNotExist,
\* PersonView.get returns the body {error: "Person does not exist!"} with
\* status 404; the serializer is not called and nothing escapes the view.
C4_NotFoundIs404 ==
    \A c \in Calls :
        (Done(c) /\ InView(c) /\ outcome[c] = Raised("EntityDoesNotExist")) =>
            /\ response[c].kind = "returned"
            /\ response[c].body = [error |-> "Person does not exist!"]
            /\ response[c].status = 404
            /\ serialized[c] = 0

C4_Witness ==
    \A r \in Refs : \E c \in Calls :
        /\ Done(c) /\ InView(c) /\ arg[c] = r
        /\ outcome[c] = Raised("EntityDoesNotExist")
        /\ response[c].status = 404

\* C5 as amended: for every Person(r, d) the repository returns,
\* PersonView.get returns status 200 and the serialized Person, a mapping
\* with exactly the two keys reference and department_id whose values are r
\* and d; serialize(Person(r, d)) is that mapping for all (r, d).
C5_SerializedBody ==
    /\ \A c \in Calls :
          (Done(c) /\ InView(c) /\ outcome[c].kind = "ok") =>
              /\ response[c].kind = "returned"
              /\ response[c].status = 200
              /\ DOMAIN response[c].body = {"reference", "department_id"}
              /\ response[c].body["reference"] = outcome[c].value._reference
              /\ response[c].body["department_id"] = outcome[c].value._department_id
              /\ serialized[c] = 1
    /\ \A r \in Refs, d \in Depts :
          serialize(Person(r, d)) = [reference |-> r, department_id |-> d]

C5_Witness ==
    \E c \in Calls :
        /\ Done(c) /\ InView(c)
        /\ outcome[c] = Ok(Person("abc", 5))
        /\ response[c] = Returned([reference |-> "abc", department_id |-> 5], 200)

\* C5 as stated: the body's two keys are reference and departmentId.
C5_Original ==
    \A c \in Calls :
        (Done(c) /\ InView(c) /\ outcome[c].kind = "ok") =>
            /\ response[c].status = 200
            /\ response[c].body =
                  [reference |-> outcome[c].value._reference,
                   departmentId |-> outcome[c].value._department_id]

\* C6: a get_person call queries the database at most once, and only after
\* its own cache lookup returned nothing; the cache is written only by a call
\* that missed the cache and read the database, once, and only under the
\* reference that call was asked for.
C6_LazyWarming ==
    /\ \A c \in Calls :
          /\ dbQueries[c] <= 1
          /\ dbQueries[c] = 1 => Missed(c)
          /\ cacheSaves[c] <= 1
          /\ cacheSaves[c] = Cardinality(WritesOf(c))
          /\ cacheSaves[c] = 1 => Missed(c) /\ dbQueries[c] = 1
    /\ \A i \in 1..Len(writes) :
          /\ Called(writes[i].call)
          /\ Person_reference(writes[i].person) = Requested(writes[i].call)

C6_Witness ==
    /\ \E c \in Calls : Done(c) /\ Missed(c) /\ dbQueries[c] = 1 /\ cacheSaves[c] = 1
    /\ \E c \in Calls : Done(c) /\ Hit(c) /\ dbQueries[c] = 0
    /\ \E r \in Refs : r \in DOMAIN db /\ r \notin DOMAIN cache /\ WritesTo(r) = {}

\* C7: set_params returns the interactor it was called on, and after one or
\* more set_params calls execute() makes exactly one person_repo.get_person
\* call, with the reference of the most recent set_params call.
C7_ExecuteUsesLastParams ==
    \A c \in Calls :
        /\ lastSet[c] # Unset => setRet[c] = c
        /\ Len(repoCalls[c]) <= 1
        /\ Called(c) => Requested(c) = lastSet[c]
        /\ (lastSet[c] # Unset /\ pc[c] \notin {"idle", "configured"}) => Called(c)
        /\ (Done(c) /\ Called(c)) => outcome[c] # Pending

C7_Witness ==
    \E c \in Calls :
        /\ Done(c) /\ ~InView(c)
        /\ arg[c] = "abc" /\ lastSet[c] = "missing"
        /\ repoCalls[c] = <<"missing">>
        /\ outcome[c].kind = "ok"

\* C8: a failure of the interactor's execution other than EntityDoesNotExist
\* leaves PersonView.get unhandled: the view produces no (body, status), so
\* neither a 404 nor a 200.
C8_OtherFailuresEscape ==
    \A c \in Calls :
        (Done(c) /\ InView(c) /\ outcome[c].kind = "raised"
                 /\ outcome[c].value # "EntityDoesNotExist") =>
            /\ response[c].kind = "escaped"
            /\ response[c].body = outcome[c].value
            /\ response[c].status \notin {200, 404}
            /\ serialized[c] = 0

C8_Witness ==
    /\ \E c \in Calls :
          /\ Done(c) /\ InView(c) /\ cacheSeen[c] = <<>>
          /\ response[c] = Escaped("StoreUnavailable")
    /\ \E c \in Calls :
          /\ Done(c) /\ InView(c) /\ Missed(c) /\ dbQueries[c] = 1
          /\ response[c] = Escaped("StoreUnavailable")

\* C9: when two get_person calls for the same reference have each missed the
\* cache, each queried the database and each written the cache, each has
\* returned the database's Person, and the cache holds under that reference
\* the Person of the last write, which is the one the last writer returned.
C9_DuplicatePopulation ==
    \A c1, c2 \in Calls :
        (/\ c1 # c2
         /\ Called(c1) /\ Called(c2) /\ Requested(c1) = Requested(c2)
         /\ Missed(c1) /\ Missed(c2)
         /\ cacheSaves[c1] = 1 /\ cacheSaves[c2] = 1) =>
            LET r == Requested(c1)
                w == writes[LastWriteTo(r)]
            IN  /\ dbQueries[c1] = 1 /\ dbQueries[c2] = 1
                /\ outcome[c1] = Ok(DbPerson(r))
                /\ outcome[c2] = Ok(DbPerson(r))
                /\ Cardinality(WritesTo(r)) >= 2
                /\ cache[r] = w.person
                /\ outcome[w.call] = Ok(w.person)

C9_Witness ==
    \E c1, c2 \in Calls :
        /\ c1 # c2
        /\ Called(c1) /\ Called(c2) /\ Requested(c1) = Requested(c2)
        /\ Missed(c1) /\ Missed(c2)
        /\ dbQueries[c1] + dbQueries[c2] = 2
        /\ cacheSaves[c1] = 1 /\ cacheSaves[c2] = 1
        /\ Done(c1) /\ Done(c2)
        /\ Len(writes) = 2

\* C10: from a cache whose every entry equals the database's entry, after any
\* interleaving of get_person calls every cached reference is in the database
\* with the same Person, stored under its own reference, and no step changes
\* the database.
Coherent ==
    \A r \in DOMAIN cache :
        /\ r \in DOMAIN db
        /\ db[r].reference = r
        /\ cache[r] = Person(r, db[r].department_id)

C10_CacheCoherence == [][db' = db /\ Coherent /\ Coherent']_vars

C10_Witness ==
    /\ Coherent
    /\ \E r \in DOMAIN cache : WritesTo(r) # {} /\ db[r].department_id = 7
    /\ \E c \in Calls : Done(c) /\ Hit(c)
====
